---- MODULE Spec2Model ----
(***************************************************************************)
(* A model of the cleaner binary: src/src/main.rs, src/src/utils.rs and    *)
(* src/src/args.rs.                                                        *)
(*                                                                         *)
(* Strings are sequences of symbols.  A symbol stands for one character    *)
(* (",", "*", "[", "y", "\n", ...) or for a run of characters that holds   *)
(* none of the characters the program treats specially ("target",          *)
(* "cmake-build-", ".o"), so that splitting on commas and glob matching    *)
(* are computed symbol by symbol the way the program computes them         *)
(* character by character.                                                 *)
(***************************************************************************)
EXTENDS Integers, Sequences, FiniteSets, TLC

\* Option<T>: None is the empty sequence, Some(x) the one-element sequence.
None == <<>>

Some(x) == <<x>>

IsSome(o) == o # <<>>

Unwrap(o) == o[1]

\* A match expression that has no arm for its scrutinee yields no value.
NoArm == None

Comma == ","
Star == "*"
LBrack == "["

Range(s) == {s[i] : i \in 1..Len(s)}

RECURSIVE SelectNonEmpty(_)
\* .filter(|s| !s.is_empty()) of main.rs:94
SelectNonEmpty(ss) ==
    IF ss = <<>> THEN <<>>
    ELSE IF Head(ss) = <<>> THEN SelectNonEmpty(Tail(ss))
    ELSE <<Head(ss)>> \o SelectNonEmpty(Tail(ss))

RECURSIVE split(_)
\* str::split(','): "a,,b" gives "a", "", "b"; "" gives one empty segment.
split(s) ==
    IF \A i \in 1..Len(s) : s[i] # Comma THEN <<s>>
    ELSE LET i == CHOOSE k \in 1..Len(s) :
                     s[k] = Comma /\ \A j \in 1..(k - 1) : s[j] # Comma
         IN  <<SubSeq(s, 1, i - 1)>> \o split(SubSeq(s, i + 1, Len(s)))

RECURSIVE join(_)
\* The inverse of split: the segments with one comma between neighbours.
join(ss) ==
    IF Len(ss) = 1 THEN ss[1]
    ELSE ss[1] \o <<Comma>> \o join(Tail(ss))

(***************************************************************************)
(* args.rs: ProjectKind and its Display.                                   *)
(***************************************************************************)
ProjectKind ==
    {"All", "Ide", "Rust", "Python", "Java", "Node", "Go", "CSharp", "Cpp",
     "Php", "Ruby"}

\* format!("{}", k).to_lowercase() of main.rs:73 over Display of args.rs:41-58
kind_key(k) ==
    CASE k = "All" -> "all"
      [] k = "Ide" -> "ide"
      [] k = "Rust" -> "rust"
      [] k = "Python" -> "python"
      [] k = "Java" -> "java"
      [] k = "Node" -> "node"
      [] k = "Go" -> "go"
      [] k = "CSharp" -> "csharp"
      [] k = "Cpp" -> "cpp"
      [] k = "Php" -> "php"
      [] k = "Ruby" -> "ruby"

(***************************************************************************)
(* utils.rs: the default pattern lists.  The match has ten arms; there is  *)
(* none for ProjectKind::All.                                              *)
(***************************************************************************)
default_dirs_for_kind(kind) ==
    CASE kind = "Rust" -> Some(<< <<"target">>, <<"out">>, <<"build">> >>)
      [] kind = "Python" ->
            Some(<< <<"__pycache__">>, <<".venv">>, <<"venv">>, <<"env">>,
               <<".mypy_cache">>, <<".pytest_cache">> >>)
      [] kind = "Java" ->
            Some(<< <<"build">>, <<"out">>, <<"target">>, <<"bin">>, <<"classes">>,
               <<"generated-sources">>, <<"generated-test-sources">> >>)
      [] kind = "Ide" ->
            Some(<< <<".idea">>, <<".vs">>, <<".vscode">>, <<".DS_Store">>,
               <<".history">>, <<".classpath">>, <<".project">>,
               <<".settings">>, <<"xcuserdata">>, <<Star, ".iml">> >>)
      [] kind = "Node" ->
            Some(<< <<"node_modules">>, <<"dist">>, <<"build">>, <<".next">>,
               <<".nuxt">>, <<".angular">>, <<".svelte-kit">>,
               <<"coverage">> >>)
      [] kind = "Go" -> Some(<< <<"bin">>, <<"pkg">>, <<"out">> >>)
      [] kind = "CSharp" -> Some(<< <<"bin">>, <<"obj">>, <<"out">> >>)
      [] kind = "Cpp" ->
            Some(<< <<"build">>, <<"out">>, <<"bin">>, <<"CMakeFiles">>,
               <<"cmake-build-", Star>>, <<"Makefile">>, <<Star, ".o">>,
               <<Star, ".obj">> >>)
      [] kind = "Php" ->
            Some(<< <<"vendor">>, <<"out">>, <<"build">>, <<"cache">> >>)
      [] kind = "Ruby" ->
            Some(<< <<".bundle">>, <<"vendor">>, <<"log">>, <<"tmp">>,
               <<"coverage">> >>)
      [] OTHER -> NoArm

(***************************************************************************)
(* The glob crate as main.rs uses it: Pattern::new and Pattern::matches    *)
(* with the default MatchOptions, on names that hold no path separator.    *)
(***************************************************************************)
\* Pattern::new(p).ok() is Some: no unclosed "[" (the alphabet has no "]"),
\* and a run of two or more "*" is the whole pattern "**".
PatternNewOk(p) ==
    /\ \A i \in 1..Len(p) : p[i] # LBrack
    /\ \A i \in 1..(Len(p) - 1) :
           (p[i] = Star /\ p[i + 1] = Star) => Len(p) = 2

RECURSIVE FilterOk(_)
\* .filter_map(|p| Pattern::new(p).ok()) of main.rs:136-137
FilterOk(ps) ==
    IF ps = <<>> THEN <<>>
    ELSE IF PatternNewOk(Head(ps)) THEN <<Head(ps)>> \o FilterOk(Tail(ps))
    ELSE FilterOk(Tail(ps))

RECURSIVE matches(_, _)
\* Pattern::matches(name): the whole name against the whole pattern.
matches(p, s) ==
    IF p = <<>> THEN s = <<>>
    ELSE IF Head(p) = Star
         THEN matches(Tail(p), s) \/ (s # <<>> /\ matches(p, Tail(s)))
    ELSE s # <<>> /\ Head(s) = Head(p) /\ matches(Tail(p), Tail(s))

\* dir_patterns.iter().any(|pat| pat.matches(file_name))
AnyMatches(pats, name) == \E i \in 1..Len(pats) : matches(pats[i], name)

(***************************************************************************)
(* main.rs: the configuration file and the resolution of the two lists.    *)
(***************************************************************************)
\* The files --config can name.  bad.toml does not parse; a path that is
\* not listed does not exist.
ConfigFiles ==
    [ c \in {"all.toml", "rust.toml", "empty.toml", "bad.toml"} |->
        CASE c = "all.toml" ->
                Some([kinds |-> Some([k \in {"all"} |->
                                        [dirs |-> Some(<< <<"custom">> >>)]]),
                      exclude |-> Some([patterns |-> Some(<< <<"keepme">> >>)])])
          [] c = "rust.toml" ->
                Some([kinds |-> Some([k \in {"rust", "go"} |->
                                        IF k = "rust"
                                        THEN [dirs |-> Some(<< <<"c">> >>)]
                                        ELSE [dirs |-> None]]),
                      exclude |-> Some([patterns |-> None])])
          [] c = "empty.toml" -> Some([kinds |-> None, exclude |-> None])
          [] c = "bad.toml" -> None ]

\* File::open(path).ok()?, read_to_string(..).ok()?, toml::from_str(..).ok()
load_config(path) ==
    IF path \in DOMAIN ConfigFiles THEN ConfigFiles[path] ELSE None

\* args.config.as_deref().map(load_config).flatten()
LoadedConfig(a) ==
    IF IsSome(a.config) THEN load_config(Unwrap(a.config)) ELSE None

\* The config tier of determine_dirs_to_clean: Some(dirs) when it returns.
ConfigDirs(a, config) ==
    IF ~IsSome(config) THEN None
    ELSE LET cfg == Unwrap(config) IN
         IF ~IsSome(cfg.kinds) THEN None
         ELSE LET kinds == Unwrap(cfg.kinds)
                  key == IF IsSome(a.kind) THEN kind_key(Unwrap(a.kind))
                         ELSE "all"
              IN  IF key \in DOMAIN kinds THEN kinds[key].dirs ELSE None

\* determine_dirs_to_clean with the config file consulted before --dirs.
determine_dirs_config_first(a, config) ==
    IF IsSome(ConfigDirs(a, config)) THEN ConfigDirs(a, config)
    ELSE IF IsSome(a.dirs) THEN Some(split(Unwrap(a.dirs)))
    ELSE IF IsSome(a.kind) THEN default_dirs_for_kind(Unwrap(a.kind))
    ELSE default_dirs_for_kind("All")

\* Some(list) when the function returns a list; NoArm when the fallback
\* reaches default_dirs_for_kind with a kind it has no arm for.
determine_dirs_to_clean(a, config) ==
    IF IsSome(a.dirs) THEN Some(split(Unwrap(a.dirs)))
    ELSE IF IsSome(ConfigDirs(a, config)) THEN ConfigDirs(a, config)
    ELSE IF IsSome(a.kind) THEN default_dirs_for_kind(Unwrap(a.kind))
    ELSE default_dirs_for_kind("All")

determine_exclude(a, config) ==
    IF IsSome(a.exclude) THEN SelectNonEmpty(split(Unwrap(a.exclude)))
    ELSE IF IsSome(config) /\ IsSome(Unwrap(config).exclude)
            /\ IsSome(Unwrap(Unwrap(config).exclude).patterns)
         THEN Unwrap(Unwrap(Unwrap(config).exclude).patterns)
    ELSE <<>>

(***************************************************************************)
(* Operator input: read_line, then trim().to_lowercase().                  *)
(***************************************************************************)
Whitespace == {" ", "\n"}

RECURSIVE trim_start(_)
trim_start(s) ==
    IF s # <<>> /\ Head(s) \in Whitespace THEN trim_start(Tail(s)) ELSE s

RECURSIVE trim_end(_)
trim_end(s) ==
    IF s # <<>> /\ s[Len(s)] \in Whitespace
    THEN trim_end(SubSeq(s, 1, Len(s) - 1)) ELSE s

trim(s) == trim_end(trim_start(s))

to_lowercase(s) ==
    [i \in 1..Len(s) |->
        CASE s[i] = "Y" -> "y"
          [] s[i] = "E" -> "e"
          [] s[i] = "S" -> "s"
          [] s[i] = "N" -> "n"
          [] OTHER -> s[i]]

\* IsYes with empty input taken as consent.
IsYes_EmptyIsYes(line) ==
    LET input == to_lowercase(trim(line))
    IN  input = <<"y">> \/ input = <<"y", "e", "s">> \/ input = <<>>

\* input == "y" || input == "yes" of main.rs:121 and main.rs:172
IsYes(line) ==
    LET input == to_lowercase(trim(line))
    IN  input = <<"y">> \/ input = <<"y", "e", "s">>

(***************************************************************************)
(* The directory trees the program is run on.  Node 1 is the root path;    *)
(* a root given as "." has no file_name, which main.rs:144 reads as "".    *)
(***************************************************************************)
Dir(p, nm) == [parent |-> p, name |-> nm, is_dir |-> TRUE, readable |-> TRUE, len |-> 2]

Locked(p, nm) == [parent |-> p, name |-> nm, is_dir |-> TRUE, readable |-> FALSE, len |-> 2]

File(p, nm) == [parent |-> p, name |-> nm, is_dir |-> FALSE, readable |-> TRUE, len |-> 1]

\* root/{target/f.txt, keepme, custom}: the trees of exclude_skips_dir and
\* config_file_dirs.
TreeFlat ==
    << Dir(0, <<"r">>), Dir(1, <<"target">>), File(2, <<"f", ".txt">>),
       Dir(1, <<"keepme">>), Dir(1, <<"custom">>) >>

\* ./a/b/target/f.txt: the tree of max_depth_limits_search, under ".".
TreeDeep ==
    << Dir(0, <<>>), Dir(1, <<"a">>), Dir(2, <<"b">>), Dir(3, <<"target">>),
       File(4, <<"f", ".txt">>) >>

\* target/{target/target (a file), keepme}: targets inside targets.
TreeNested ==
    << Dir(0, <<"target">>), Dir(1, <<"target">>), File(2, <<"target">>),
       Dir(1, <<"keepme">>) >>

\* root/{a (unreadable), target/{sub (unreadable), f.txt}}
TreeLocked ==
    << Dir(0, <<"r">>), Locked(1, <<"a">>), Dir(1, <<"target">>),
       Locked(3, <<"sub">>), File(3, <<"f", ".txt">>) >>

Trees == {TreeFlat, TreeDeep, TreeNested, TreeLocked}

Nodes(t) == 1..Len(t)

Root == 1

RECURSIVE Depth(_, _)
\* DirEntry::depth: 0 for the root.
Depth(t, n) == IF n = Root THEN 0 ELSE 1 + Depth(t, t[n].parent)

RECURSIVE IsUnder(_, _, _)
\* n is a or lies below a.
IsUnder(t, n, a) ==
    IF n = a THEN TRUE
    ELSE IF n = Root THEN FALSE
    ELSE IsUnder(t, t[n].parent, a)

Subtree(t, a) == {n \in Nodes(t) : IsUnder(t, n, a)}

Children(t, files, a) == {n \in files : t[n].parent = a}

(***************************************************************************)
(* Bounds and inputs.                                                      *)
(***************************************************************************)
\* --max-depth ranges over 0..MaxDepthArg
MaxDepthArg == 2

\* Values of --dirs
DirsArgs ==
    { None,
      Some(<<"target", Comma, "keepme">>),
      Some(<<"target", Comma>>),
      Some(<<Star, Comma, LBrack>>) }

\* Values of --exclude
ExcludeArgs == { None, Some(<<"keepme", Comma, Comma, "a", Star>>) }

\* Values of --kind (clap fills in "all" when the flag is absent)
KindArgs == { Some("All"), Some("Rust") }

\* Values of --config
ConfigArgs == { None, Some("all.toml") }

\* Lines the operator can type; <<>> is end of input.
Lines ==
    { <<"y", "\n">>, <<" ", "Y", "E", "S", "\n">>, <<"n", "\n">>,
      <<"y", "e", "\n">>, <<"\n">>, <<>> }

\* Every command line over the given values of the options; B holds the
\* values of the four switches.
ArgsOf(D, E, K, C, M, B) ==
    [ dirs : D, exclude : E, kind : K, config : C, max_depth : M,
      force : B, dry_run : B, interactive : B, ci : B ]

\* The wider option values the resolution alone is run on.
DirsArgsAll ==
    DirsArgs \cup { Some(<<>>), Some(<<Comma>>), Some(<<"a", Comma, "b">>),
                    Some(<<"a", Comma, Comma, "b">>) }

ExcludeArgsAll == ExcludeArgs \cup { Some(<<>>), Some(<<"docs">>) }

KindArgsAll == { None } \cup { Some(k) : k \in ProjectKind }

ConfigArgsAll ==
    { None, Some("missing.toml") } \cup { Some(c) : c \in DOMAIN ConfigFiles }

(***************************************************************************)
(* State.                                                                  *)
(***************************************************************************)
VARIABLES
    args,          \* the parsed command line (immutable within a run)
    tree,          \* the directory tree under the root path
    files,         \* the nodes of tree that exist on disk
    pc,            \* where main is
    dirs,          \* main.rs:211
    exclude,       \* main.rs:213
    stack,         \* the walkdir iterator: directory listings being read
    targets,       \* main.rs:139
    pending,       \* indices of targets not yet handled by the policy
    total_bytes,   \* main.rs:156
    stdout,        \* lines printed
    reads,         \* number of read_line calls on stdin
    confirm_input, \* input of confirm_deletion (main.rs:120), "" before it
    rm_ok,         \* targets whose remove_dir_all returned Ok
    rm_err,        \* targets whose remove_dir_all returned Err
    skipped,       \* targets the operator declined
    yielded,       \* entries the walk has yielded to the closure
    prev_targets   \* Some(target set of the preceding dry run), if any

vars ==
    << args, tree, files, pc, dirs, exclude, stack, targets, pending,
       total_bytes, stdout, reads, confirm_input, rm_ok, rm_err, skipped,
       yielded, prev_targets >>

runvars == << dirs, exclude, stack, targets, pending, total_bytes >>

ghost == << rm_ok, rm_err, skipped, yielded, prev_targets >>

Fresh ==
    /\ pc = "start"
    /\ dirs = <<>>
    /\ exclude = <<>>
    /\ stack = <<>>
    /\ targets = <<>>
    /\ pending = {}
    /\ total_bytes = 0
    /\ stdout = <<>>
    /\ reads = 0
    /\ confirm_input = <<>>
    /\ rm_ok = {}
    /\ rm_err = {}
    /\ skipped = {}
    /\ yielded = {}

Init ==
    /\ args \in ArgsOf(DirsArgs, ExcludeArgs, KindArgs, ConfigArgs,
                       0..MaxDepthArg, BOOLEAN)
    /\ tree \in Trees
    /\ files = Nodes(tree)
    /\ prev_targets = None
    /\ Fresh

(***************************************************************************)
(* main, lines 209-213: load the config and resolve the two lists.         *)
(***************************************************************************)
Resolve ==
    /\ pc = "start"
    /\ UNCHANGED confirm_input
    /\ LET config == LoadedConfig(args)
           d == determine_dirs_to_clean(args, config)
       IN  /\ IF IsSome(d)
              THEN dirs' = Unwrap(d) /\ pc' = "confirm"
              ELSE dirs' = dirs /\ pc' = "no_arm"
           /\ exclude' = determine_exclude(args, config)
    /\ UNCHANGED << args, tree, files, stack, targets, pending, total_bytes,
                    stdout, reads, ghost >>

(***************************************************************************)
(* main, lines 215-218, with confirm_deletion.                             *)
(***************************************************************************)
Confirm ==
    /\ pc = "confirm"
    /\ IF args.force
       THEN /\ pc' = "walk"
            /\ UNCHANGED << stdout, reads, confirm_input >>
       ELSE \E line \in Lines :
            /\ reads' = reads + 1
            /\ confirm_input' = to_lowercase(trim(line))
            /\ IF IsYes(line)
               THEN /\ pc' = "walk"
                    /\ stdout' = Append(stdout, [text |-> "Are you sure you want to proceed? [y/N]: ",
                                                 dirs |-> dirs])
               ELSE /\ pc' = "done"
                    /\ stdout' = stdout \o
                           << [text |-> "Are you sure you want to proceed? [y/N]: ",
                               dirs |-> dirs],
                              [text |-> "Aborted by user."] >>
    /\ UNCHANGED << args, tree, files, runvars, ghost >>

(***************************************************************************)
(* clean_directories, lines 127-154: the walk that collects the targets.   *)
(***************************************************************************)
\* Descends with the bound applied one level too late.
Descends_OffByOne(t, n, max_depth) ==
    t[n].is_dir /\ (max_depth = 0 \/ Depth(t, n) <= max_depth)

\* WalkDir::new(path), with max_depth(d) when d > 0: whether the iterator
\* opens the directory n to list it.
Descends(t, n, max_depth) ==
    t[n].is_dir /\ (max_depth = 0 \/ Depth(t, n) < max_depth)

\* IsTarget without the file_type().is_dir() test.
IsTarget_NoDirCheck(t, n, ds, ex) ==
    /\ AnyMatches(FilterOk(ds), t[n].name)
    /\ ~AnyMatches(FilterOk(ex), t[n].name)

\* The condition of main.rs:145-147 on a yielded entry.
IsTarget(t, n, ds, ex) ==
    /\ t[n].is_dir
    /\ AnyMatches(FilterOk(ds), t[n].name)
    /\ ~AnyMatches(FilterOk(ex), t[n].name)

RECURSIVE PopDone(_)
\* Listings that are exhausted are dropped from the top of the stack.
PopDone(st) ==
    IF st # <<>> /\ ~st[Len(st)].err /\ st[Len(st)].rest = {}
    THEN PopDone(SubSeq(st, 1, Len(st) - 1))
    ELSE st

\* Policy with the per-target prompts kept when force is set.
Policy_PromptDespiteForce(a) ==
    IF a.dry_run THEN "dry"
    ELSE IF a.interactive THEN "interactive"
    ELSE "parallel"

\* Policy with force tested before dry_run.
Policy_ForceFirst(a) ==
    IF a.force THEN "parallel"
    ELSE IF a.dry_run THEN "dry"
    ELSE IF a.interactive THEN "interactive"
    ELSE "parallel"

\* The branch of main.rs:157-191 the collected targets are handed to.
Policy(a) ==
    IF a.dry_run THEN "dry"
    ELSE IF a.interactive /\ ~a.force THEN "interactive"
    ELSE "parallel"

WalkStart ==
    /\ pc = "walk"
    /\ UNCHANGED confirm_input
    /\ pc' = "walking"
    /\ stack' = << [err |-> FALSE, rest |-> {Root}] >>
    /\ targets' = <<>>
    /\ yielded' = {}
    /\ UNCHANGED << args, tree, files, dirs, exclude, pending, total_bytes,
                    stdout, reads, rm_ok, rm_err, skipped, prev_targets >>

\* One step of the iterator with the closure of main.rs:141-153 applied to
\* what it yields.
WalkNext ==
    /\ pc = "walking"
    /\ UNCHANGED confirm_input
    /\ LET st == PopDone(stack)
           top == Len(st)
       IN  IF st = <<>>
           THEN \* the iterator is exhausted: lines 155-156 and the dispatch
                /\ stack' = <<>>
                /\ targets' = targets
                /\ pending' = 1..Len(targets)
                /\ total_bytes' = 0
                /\ pc' = IF Policy(args) = "dry" \/ targets # <<>>
                         THEN Policy(args) ELSE "summary"
                /\ yielded' = yielded
           ELSE IF st[top].err
           THEN \* the listing could not be opened: file.unwrap() panics
                /\ stack' = SubSeq(st, 1, top - 1)
                /\ pc' = "panicked"
                /\ UNCHANGED << targets, pending, total_bytes, yielded >>
           ELSE \E n \in st[top].rest :
                LET rest == [st EXCEPT ![top].rest = @ \ {n}]
                    frame == IF tree[n].readable
                             THEN [err |-> FALSE, rest |-> Children(tree, files, n)]
                             ELSE [err |-> TRUE, rest |-> {}]
                IN  /\ stack' = IF Descends(tree, n, args.max_depth)
                                THEN Append(rest, frame) ELSE rest
                    /\ targets' = IF IsTarget(tree, n, dirs, exclude)
                                  THEN Append(targets, n) ELSE targets
                    /\ yielded' = yielded \cup {n}
                    /\ pc' = "walking"
                    /\ UNCHANGED << pending, total_bytes >>
    /\ UNCHANGED << args, tree, files, dirs, exclude, stdout, reads, rm_ok,
                    rm_err, skipped, prev_targets >>

(***************************************************************************)
(* The filesystem calls of the deletion phase.                             *)
(***************************************************************************)
\* fs::metadata(path).map(|m| m.len()).unwrap_or(0)
MetadataLen(t, fl, n) == IF n \in fl THEN t[n].len ELSE 0

\* Nodes of the subtree of n that remove_dir_all cannot remove: a directory
\* it cannot list, what lies below it, and the directories above it.
Stuck(t, fl, n) ==
    {m \in Subtree(t, n) \cap fl :
        \E l \in Subtree(t, n) \cap fl :
            /\ ~t[l].readable
            /\ (IsUnder(t, m, l) \/ IsUnder(t, l, m))}

\* fs::remove_dir_all(path): the outcomes [ok, files].  It fails when the
\* path is gone or when a directory below it cannot be listed; it then
\* stops at the first error, so what it removed before that depends on
\* the listing order: any set of whole subtrees outside Stuck.  A path
\* without a final component (".") is emptied, and its own rmdir fails.
RemoveDirAll(t, fl, n) ==
    IF n \notin fl THEN {[ok |-> FALSE, files |-> fl]}
    ELSE IF Stuck(t, fl, n) = {}
    THEN IF t[n].name = <<>>
         THEN {[ok |-> FALSE, files |-> fl \ (Subtree(t, n) \ {n})]}
         ELSE {[ok |-> TRUE, files |-> fl \ Subtree(t, n)]}
    ELSE {[ok |-> FALSE, files |-> fl \ gone] :
            gone \in {S \in SUBSET ((Subtree(t, n) \cap fl) \ Stuck(t, fl, n)) :
                        \A m \in S : (Subtree(t, m) \cap fl) \subseteq S}}

RECURSIVE DrySum(_, _, _)
\* The loop of main.rs:158-163 over the targets: the sum of the lengths
\* that fs::metadata returns.
DrySum(t, fl, ts) ==
    IF ts = <<>> THEN 0
    ELSE (IF Head(ts) \in fl THEN t[Head(ts)].len ELSE 0) + DrySum(t, fl, Tail(ts))

(***************************************************************************)
(* clean_directories, lines 157-163: dry run.                              *)
(***************************************************************************)
DryRun ==
    /\ pc = "dry"
    /\ UNCHANGED confirm_input
    /\ stdout' = stdout \o [i \in 1..Len(targets) |->
                               [text |-> "Would remove: {}", path |-> targets[i]]]
    /\ total_bytes' = total_bytes + DrySum(tree, files, targets)
    /\ pending' = {}
    /\ pc' = "summary"
    /\ UNCHANGED << args, tree, files, dirs, exclude, stack, targets, reads,
                    ghost >>

(***************************************************************************)
(* clean_directories, lines 164-180: one iteration of the interactive loop.*)
(***************************************************************************)
Min(S) == CHOOSE x \in S : \A y \in S : x <= y

InteractiveStep ==
    /\ pc = "interactive"
    /\ UNCHANGED confirm_input
    /\ LET k == Min(pending)
           n == targets[k]
           prompt == [text |-> "Delete {}? [y/N]: ", path |-> n]
       IN  /\ pending' = pending \ {k}
           /\ pc' = IF pending' = {} THEN "summary" ELSE "interactive"
           /\ reads' = reads + 1
           /\ \E line \in Lines :
                IF IsYes(line)
                THEN \E r \in RemoveDirAll(tree, files, n) :
                        /\ total_bytes' = total_bytes + MetadataLen(tree, files, n)
                        /\ files' = r.files
                        /\ rm_ok' = IF r.ok THEN rm_ok \cup {n} ELSE rm_ok
                        /\ rm_err' = IF r.ok THEN rm_err ELSE rm_err \cup {n}
                        /\ stdout' = Append(stdout, prompt)
                        /\ UNCHANGED skipped
                ELSE /\ stdout' = stdout \o
                            << prompt, [text |-> "Skipped: {}", path |-> n] >>
                     /\ skipped' = skipped \cup {n}
                     /\ UNCHANGED << files, total_bytes, rm_ok, rm_err >>
    /\ UNCHANGED << args, tree, dirs, exclude, stack, targets, yielded,
                    prev_targets >>

(***************************************************************************)
(* clean_directories, lines 181-191: one task of the parallel iterator.    *)
(***************************************************************************)
ParallelStep ==
    /\ pc = "parallel"
    /\ UNCHANGED confirm_input
    /\ \E k \in pending :
        LET n == targets[k] IN
        /\ pending' = pending \ {k}
        /\ pc' = IF pending' = {} THEN "summary" ELSE "parallel"
        /\ \E r \in RemoveDirAll(tree, files, n) :
            /\ total_bytes' = total_bytes + MetadataLen(tree, files, n)
            /\ files' = r.files
            /\ rm_ok' = IF r.ok THEN rm_ok \cup {n} ELSE rm_ok
            /\ rm_err' = IF r.ok THEN rm_err ELSE rm_err \cup {n}
    /\ UNCHANGED << args, tree, dirs, exclude, stack, targets, stdout, reads,
                    skipped, yielded, prev_targets >>

(***************************************************************************)
(* main, lines 229-235: the summary line; main returns Ok(()).             *)
(***************************************************************************)
Summary(a, count, bytes) ==
    IF a.dry_run
    THEN [text |-> "Dry run: {} directories would be removed.", count |-> count]
    ELSE [text |-> "Removed {} directories. (Total size: {:.2} MB)",
          count |-> count, total_bytes |-> bytes]

Finish ==
    /\ pc = "summary"
    /\ UNCHANGED confirm_input
    /\ stdout' = Append(stdout, Summary(args, Len(targets), total_bytes))
    /\ pc' = "done"
    /\ UNCHANGED << args, tree, files, runvars, reads, ghost >>

(***************************************************************************)
(* The operator runs the program again, for real, on the tree a completed  *)
(* dry run has left.                                                       *)
(***************************************************************************)
DryRunCompleted ==
    /\ pc = "done"
    /\ args.dry_run
    /\ stdout[Len(stdout)] = Summary(args, Len(targets), total_bytes)

RunAgain ==
    /\ DryRunCompleted
    /\ args' = [args EXCEPT !.dry_run = FALSE]
    /\ prev_targets' = Some(Range(targets))
    /\ pc' = "start"
    /\ dirs' = <<>>
    /\ exclude' = <<>>
    /\ stack' = <<>>
    /\ targets' = <<>>
    /\ pending' = {}
    /\ total_bytes' = 0
    /\ stdout' = <<>>
    /\ reads' = 0
    /\ confirm_input' = <<>>
    /\ yielded' = {}
    /\ UNCHANGED << tree, files, rm_ok, rm_err, skipped >>

Next ==
    \/ Resolve
    \/ Confirm
    \/ WalkStart
    \/ WalkNext
    \/ DryRun
    \/ InteractiveStep
    \/ ParallelStep
    \/ Finish
    \/ RunAgain

Spec == Init /\ [][Next]_vars

(***************************************************************************)
(* The resolution alone (main, lines 209-213), on every command line over  *)
(* the wider option values.                                                *)
(***************************************************************************)
InitResolve ==
    /\ args \in ArgsOf(DirsArgsAll, ExcludeArgsAll, KindArgsAll, ConfigArgsAll,
                       {0}, {FALSE})
    /\ tree = TreeFlat
    /\ files = Nodes(tree)
    /\ prev_targets = None
    /\ Fresh

NextResolve == Resolve

SpecResolve == InitResolve /\ [][NextResolve]_vars

(***************************************************************************)
(* Properties.                                                             *)
(***************************************************************************)
LastLine == stdout[Len(stdout)]

\* clean_directories has returned from the walk with the target list built.
Walked ==
    \/ pc \in {"dry", "interactive", "parallel", "summary"}
    \/ pc = "done" /\ LastLine.text # "Aborted by user."

\* The entry lies within the depth bound of the run.
WithinDepth(n) == args.max_depth = 0 \/ Depth(tree, n) <= args.max_depth

\* The name matches a pattern of the list that compiles.
MatchesSome(ps, name) ==
    \E p \in Range(ps) : PatternNewOk(p) /\ matches(p, name)

\* C1: once the walk has completed, the target list holds, each once,
\* exactly the directories of the tree within the depth bound whose
\* basename matches some include pattern and no exclude pattern.
C1_TargetsExact ==
    Walked =>
        /\ Range(targets) =
              {n \in Nodes(tree) :
                  /\ tree[n].is_dir
                  /\ WithinDepth(n)
                  /\ MatchesSome(dirs, tree[n].name)
                  /\ ~MatchesSome(exclude, tree[n].name)}
        /\ Cardinality(Range(targets)) = Len(targets)

\* A completed walk of target/{target/target, keepme} with keepme both
\* included and excluded: the two directories named target are the
\* targets, the file named target and the excluded keepme are not.
C1_Witness ==
    /\ Walked
    /\ tree = TreeNested
    /\ MatchesSome(dirs, <<"keepme">>)
    /\ MatchesSome(exclude, <<"keepme">>)
    /\ Range(targets) = {1, 2}

\* C2: with max_depth = d > 0 nothing deeper than d is yielded by the
\* walk, becomes a target, or is handled as a target by the deletion
\* phase; with max_depth = 0 a completed walk has yielded every entry.
C2_DepthBound ==
    /\ \A n \in yielded \cup Range(targets) \cup rm_ok \cup rm_err \cup skipped :
           WithinDepth(n)
    /\ (args.max_depth = 0 /\ Walked) => yielded = Nodes(tree)

\* ./a/b/target with max_depth 2, forced: target (depth 3) matches and no
\* ancestor does, the run has finished, and target was neither yielded
\* nor removed.
C2_Witness ==
    /\ pc = "done"
    /\ Walked
    /\ tree = TreeDeep
    /\ args.max_depth = 2
    /\ Policy(args) = "parallel"
    /\ IsTarget(tree, 4, dirs, exclude)
    /\ \A n \in 1..3 : ~IsTarget(tree, n, dirs, exclude)
    /\ 4 \notin yielded
    /\ 4 \in files

\* C3: through a run with dry_run set every entry of the tree stays on
\* disk, whatever the other switches and the operator's input; and a real
\* run that follows a completed dry run collects the same target set.
C3_DryRunFrame ==
    /\ args.dry_run => files = Nodes(tree)
    /\ (IsSome(prev_targets) /\ Walked) =>
           Range(targets) = Unwrap(prev_targets)

\* A real run has collected its targets after a dry run that had force,
\* interactive and ci all set and had found targets.
C3_Witness ==
    /\ IsSome(prev_targets)
    /\ Unwrap(prev_targets) # {}
    /\ Walked
    /\ args.force /\ args.interactive /\ args.ci
    /\ ~args.dry_run

\* C4: each of the two lists comes whole from the first present source:
\* the command line, then the config file, then the built-in default
\* (the table of the kind for include, the empty list for exclude); the
\* include list never depends on the sources of the exclude list, nor the
\* reverse.
C4_Precedence ==
    pc \in {"confirm", "no_arm"} =>
        LET config == LoadedConfig(args)
            fromFile == ConfigDirs(args, config)
            kind == IF IsSome(args.kind) THEN Unwrap(args.kind) ELSE "All"
            section == IF IsSome(config) THEN Unwrap(config).exclude ELSE None
            patterns == IF IsSome(section) THEN Unwrap(section).patterns ELSE None
        IN  /\ IsSome(args.dirs) =>
                   pc = "confirm" /\ join(dirs) = Unwrap(args.dirs)
            /\ (~IsSome(args.dirs) /\ IsSome(fromFile)) =>
                   pc = "confirm" /\ dirs = Unwrap(fromFile)
            /\ (~IsSome(args.dirs) /\ ~IsSome(fromFile)) =>
                   IF IsSome(default_dirs_for_kind(kind))
                   THEN pc = "confirm" /\ dirs = Unwrap(default_dirs_for_kind(kind))
                   ELSE pc = "no_arm"
            /\ IsSome(args.exclude) =>
                   /\ Range(exclude) = Range(split(Unwrap(args.exclude))) \ {<<>>}
                   /\ \A i, j \in 1..Len(exclude) : exclude[i] = exclude[j] => i = j
            /\ (~IsSome(args.exclude) /\ IsSome(patterns)) =>
                   exclude = Unwrap(patterns)
            /\ (~IsSome(args.exclude) /\ ~IsSome(patterns)) => exclude = <<>>
            /\ (args.dirs = Some(<<"a", Comma, "b">>)) =>
                   dirs = << <<"a">>, <<"b">> >>

\* --dirs a,b with a config file whose section for the active kind gives
\* ["custom"] and whose exclude section gives ["keepme"]: the include list
\* is a, b and the exclude list is the file's.
C4_Witness ==
    /\ pc = "confirm"
    /\ args.dirs = Some(<<"a", Comma, "b">>)
    /\ ConfigDirs(args, LoadedConfig(args)) = Some(<< <<"custom">> >>)
    /\ ~IsSome(args.exclude)
    /\ dirs = << <<"a">>, <<"b">> >>
    /\ exclude = << <<"keepme">> >>

\* The kinds other than All, in the order of the enum of args.rs.
OtherKinds ==
    << "Ide", "Rust", "Python", "Java", "Node", "Go", "CSharp", "Cpp", "Php",
       "Ruby" >>

RECURSIVE Dedup(_, _)
\* ss from left to right without what is in seen or occurred earlier.
Dedup(ss, seen) ==
    IF ss = <<>> THEN <<>>
    ELSE IF Head(ss) \in seen THEN Dedup(Tail(ss), seen)
    ELSE <<Head(ss)>> \o Dedup(Tail(ss), seen \cup {Head(ss)})

RECURSIVE ConcatDefaults(_)
ConcatDefaults(ks) ==
    IF ks = <<>> THEN <<>>
    ELSE Unwrap(default_dirs_for_kind(Head(ks))) \o ConcatDefaults(Tail(ks))

\* The order-stable, duplicate-free union of the other kinds' defaults.
AllUnion == Dedup(ConcatDefaults(OtherKinds), {})

\* C5: when the include list falls back to the built-in default of kind
\* All (given, or no kind given), the resolution yields a list, and that
\* list is the order-stable duplicate-free union of the other kinds'
\* defaults.
C5_AllIsUnion ==
    ( /\ pc \in {"confirm", "no_arm"}
      /\ ~IsSome(args.dirs)
      /\ ~IsSome(ConfigDirs(args, LoadedConfig(args)))
      /\ args.kind \in {None, Some("All")} )
    => (pc = "confirm" /\ dirs = AllUnion)

\* What the summary line says about failed deletions: nothing is zero.
ReportedFailures(line) ==
    IF "failed" \in DOMAIN line THEN line.failed ELSE 0

\* C6: a run under the parallel policy that has finished has attempted
\* every target, and its summary counts the targets whose deletion failed.
C6_FailureCounted ==
    (pc = "done" /\ Walked /\ Policy(args) = "parallel") =>
        /\ rm_ok \cup rm_err = Range(targets)
        /\ ReportedFailures(LastLine) = Cardinality(rm_err)

\* C7: in interactive mode only targets answered with yes are deleted, and
\* a finished run in which every prompt was declined has deleted nothing
\* and reports zero directories removed.
C7_DeclinedReportsZero ==
    (pc = "done" /\ Walked /\ Policy(args) = "interactive") =>
        /\ (rm_ok \cup rm_err) \cap skipped = {}
        /\ skipped = Range(targets) =>
               /\ files = Nodes(tree)
               /\ LastLine.count = 0

\* C8: with ci set and force not set no operator input is read and no
\* prompt is printed, and a finished run has printed a summary with the
\* keys directories and total_bytes.
C8_CiNoPrompt ==
    (args.ci /\ ~args.force) =>
        /\ reads = 0
        /\ pc = "done" =>
               {"directories", "total_bytes"} \subseteq DOMAIN LastLine

\* C9: with --dirs given the include list is the non-empty segments of its
\* value, in order, so it never holds the empty pattern and no entry with
\* an empty basename becomes a target.
C9_NoEmptyPattern ==
    (pc # "start" /\ IsSome(args.dirs)) =>
        /\ dirs = SelectNonEmpty(split(Unwrap(args.dirs)))
        /\ \A i \in 1..Len(targets) : tree[targets[i]].name # <<>>

\* C10: the walk never aborts the run, and a completed walk has collected
\* every matching directory within the depth bound that does not lie
\* below an unreadable directory.
C10_UnreadableSkipped ==
    /\ pc # "panicked"
    /\ Walked =>
          \A n \in Nodes(tree) :
              ( /\ IsTarget(tree, n, dirs, exclude)
                /\ WithinDepth(n)
                /\ \A a \in Nodes(tree) :
                       (a # n /\ IsUnder(tree, n, a)) => tree[a].readable )
              => n \in Range(targets)

RECURSIVE PromptPaths(_)
\* The paths of the per-target prompts among the lines printed, in order.
PromptPaths(out) ==
    IF out = <<>> THEN <<>>
    ELSE IF Head(out).text = "Delete {}? [y/N]: "
         THEN <<Head(out).path>> \o PromptPaths(Tail(out))
    ELSE PromptPaths(Tail(out))

\* C11: one branch handles the targets of a run.  With dry_run set no
\* removal is attempted and no target is prompted for, whatever force and
\* interactive are; otherwise with interactive set and force not, the
\* targets are taken in list order, each after a prompt of its own;
\* otherwise (force with interactive included) no target is prompted for
\* or skipped, and a finished run has called remove_dir_all on every one.
C11_OnePolicy ==
    /\ ~Walked => PromptPaths(stdout) = <<>>
    /\ args.dry_run =>
           /\ pc \notin {"interactive", "parallel"}
           /\ rm_ok \cup rm_err \cup skipped = {}
           /\ PromptPaths(stdout) = <<>>
    /\ (~args.dry_run /\ args.interactive /\ ~args.force) =>
           /\ pc \notin {"dry", "parallel"}
           /\ Walked =>
                 /\ PromptPaths(stdout) =
                        SubSeq(targets, 1, Len(targets) - Cardinality(pending))
                 /\ rm_ok \cup rm_err \cup skipped = Range(PromptPaths(stdout))
                 /\ reads = 1 + Len(PromptPaths(stdout))
    /\ (~args.dry_run /\ (~args.interactive \/ args.force)) =>
           /\ pc \notin {"dry", "interactive"}
           /\ PromptPaths(stdout) = <<>>
           /\ skipped = {}
           /\ (pc = "done" /\ Walked) => rm_ok \cup rm_err = Range(targets)

\* A finished run with force and interactive both set and two or more
\* targets: all were removed and nothing was read from the operator.
C11_Witness ==
    /\ pc = "done"
    /\ Walked
    /\ args.force /\ args.interactive /\ ~args.dry_run
    /\ Len(targets) >= 2
    /\ rm_ok = Range(targets)
    /\ reads = 0

\* C12: in the list handed to the deletion phase no target lies below
\* another target, and no deletion finds its path already gone.
C12_NonOverlapping ==
    Walked =>
        /\ \A i, j \in 1..Len(targets) :
               i # j => ~IsUnder(tree, targets[i], targets[j])
        /\ \A n \in rm_err : n \in files

\* main has gone past the confirmation into clean_directories.
CleanStarted ==
    \/ pc \in {"walk", "walking", "dry", "interactive", "parallel", "summary",
               "panicked"}
    \/ pc = "done" /\ Walked

ConfirmPrompt ==
    [text |-> "Are you sure you want to proceed? [y/N]: ", dirs |-> dirs]

====
